---- MODULE Spec2Model ----
(***************************************************************************)
(* BookGuide (src/index.py): a single-session command-line chat client.    *)
(* The model covers the topic classifier, the seed of a new chat, the      *)
(* remote query, the transcript store and the interactive loop of main().  *)
(*                                                                         *)
(* A Python str is a sequence of pieces: a piece is one character for text *)
(* that is typed or searched character by character, and a whole literal   *)
(* for the program's fixed texts (the persona, the example exchanges).     *)
(* None and the empty list are both the empty sequence: the program only   *)
(* ever tests chat_history for truthiness.                                 *)
(***************************************************************************)
EXTENDS Integers, Sequences, FiniteSets, TLC

VARIABLES pc, session_id, chat_history, file, clock, user_input, out,
          outcome, asked, classified, loaded

vars == <<pc, session_id, chat_history, file, clock, user_input, out,
          outcome, asked, classified, loaded>>

(***************************************************************************)
(* Bounds of the model.                                                    *)
(***************************************************************************)
MaxFrags == 2
MaxQuestions == 3
MaxSaves == 2

(***************************************************************************)
(* str operations                                                          *)
(***************************************************************************)
Whitespace == {" ", "TAB"}

lowerOf ==
    [A |-> "a", B |-> "b", C |-> "c", D |-> "d", E |-> "e", F |-> "f",
     G |-> "g", H |-> "h", I |-> "i", J |-> "j", K |-> "k", L |-> "l",
     M |-> "m", N |-> "n", O |-> "o", P |-> "p", Q |-> "q", R |-> "r",
     S |-> "s", T |-> "t", U |-> "u", V |-> "v", W |-> "w", X |-> "x",
     Y |-> "y", Z |-> "z"]

\* str.lower(): upper-case letters become lower-case, the rest is kept
lower(s) ==
    [i \in 1..Len(s) |-> IF s[i] \in DOMAIN lowerOf THEN lowerOf[s[i]] ELSE s[i]]

RECURSIVE lstrip(_)
lstrip(s) ==
    IF s # <<>> /\ Head(s) \in Whitespace THEN lstrip(Tail(s)) ELSE s

RECURSIVE rstrip(_)
rstrip(s) ==
    IF s # <<>> /\ s[Len(s)] \in Whitespace
    THEN rstrip(SubSeq(s, 1, Len(s) - 1))
    ELSE s

\* str.strip()
strip(s) == rstrip(lstrip(s))

\* key in s
Contains(key, s) ==
    \E i \in 0..(Len(s) - Len(key)) : SubSeq(s, i + 1, i + Len(key)) = key

RECURSIVE join(_, _)
\* sep.join(items)
join(sep, items) ==
    IF items = <<>> THEN <<>>
    ELSE IF Len(items) = 1 THEN items[1]
    ELSE items[1] \o sep \o join(sep, Tail(items))

(***************************************************************************)
(* Topic classifier                                                        *)
(***************************************************************************)
keywords ==
    << [key |-> <<"r","e","c","o","m","m","e","n","d">>, topic |-> "recommendations"],
       [key |-> <<"s","u","g","g","e","s","t">>,         topic |-> "recommendations"],
       [key |-> <<"a","u","t","h","o","r">>,             topic |-> "author_info"],
       [key |-> <<"w","r","i","t","e">>,                 topic |-> "author_info"],
       [key |-> <<"g","e","n","r","e">>,                 topic |-> "genre_exploration"],
       [key |-> <<"t","y","p","e">>,                     topic |-> "genre_exploration"],
       [key |-> <<"u","n","d","e","r","s","t","a","n","d">>, topic |-> "comprehension"],
       [key |-> <<"m","e","a","n","i","n","g">>,         topic |-> "comprehension"],
       [key |-> <<"l","i","b","r","a","r","y">>,         topic |-> "resources"],
       [key |-> <<"f","i","n","d">>,                     topic |-> "resources"] >>

RECURSIVE classify_loop(_, _)
\* the for loop over keywords.items(), from the i-th item on
classify_loop(i, text) ==
    IF i > Len(keywords) THEN "general"
    ELSE IF Contains(keywords[i].key, text) THEN keywords[i].topic
    ELSE classify_loop(i + 1, text)

\* a classifier that forgets to lower-case its input
classify_topic_nolower(text) == classify_loop(1, text)

classify_topic(text) == classify_loop(1, lower(text))

Topics ==
    {"recommendations", "author_info", "genre_exploration", "comprehension",
     "resources", "general"}

(***************************************************************************)
(* Prompt builder                                                          *)
(***************************************************************************)
\* the persona text, one literal
create_system_instructions == <<"You are BookGuide, an expert literary advisor. [...]">>

ExampleQuestion == <<"Can you recommend a good mystery book?">>
ExampleAnswer == <<"Here are two excellent mystery recommendations: [...]">>
Acknowledgment ==
    <<"I understand my role as BookGuide. How can I help with your questions about books or reading?">>

\* a plain role/parts record
Dict(role, parts) == [shape |-> "dict", role |-> role, parts |-> parts]

\* a Content object of the remote library: it always carries a role attribute
Content(role, parts) == [shape |-> "Content", role |-> role, parts |-> parts]

\* a seed that forgets the example answer
get_few_shot_examples_short == << Dict("user", ExampleQuestion) >>

get_few_shot_examples ==
    << Dict("user", ExampleQuestion), Dict("model", ExampleAnswer) >>

\* create_system_instructions() + f"\nFocus on {topic} aspects in your response."
system_prompt(topic) ==
    create_system_instructions
        \o <<"LF", "Focus on ", topic, " aspects in your response.">>

\* the history a new chat is started with
seed_history(topic) ==
    << Dict("user", system_prompt(topic)), Dict("model", Acknowledgment) >>
        \o get_few_shot_examples

(***************************************************************************)
(* Remote model: start_chat turns every turn of the given history into a   *)
(* Content object; send_message either raises or appends the user turn and *)
(* the reply to the chat's history.                                        *)
(***************************************************************************)
start_chat(history) ==
    [i \in 1..Len(history) |-> Content(history[i].role, history[i].parts)]

send_message(chat, text, reply) ==
    chat \o << Content("user", text), Content("model", <<reply>>) >>

Replies == {"Try 'Dune'.", "Ask a librarian."}
Errors == {"429 quota exceeded", "response was blocked"}

RemoteOutcomes ==
    [kind : {"ok"}, val : Replies] \cup [kind : {"error"}, val : Errors]

NoOutcome == [kind |-> "none", val |-> ""]

\* `if chat_history:` : None and [] are falsy
truthy(history) == history # <<>>

\* a query that seeds the chat on every question
gemini_api_query_reseed(text, history, remote) ==
    LET chat == start_chat(seed_history(classify_topic(text)))
    IN  IF remote.kind = "ok"
        THEN [response |-> <<remote.val>>,
              history |-> send_message(chat, text, remote.val),
              seeded |-> TRUE]
        ELSE [response |-> <<"I apologize, but I encountered an error: ",
                             remote.val, ". Please try again.">>,
              history |-> history,
              seeded |-> TRUE]

\* a query that keeps the user's turn of a failed exchange
gemini_api_query_keepturn(text, history, remote) ==
    LET seeded == ~truthy(history)
        chat == IF seeded
                THEN start_chat(seed_history(classify_topic(text)))
                ELSE start_chat(history)
    IN  IF remote.kind = "ok"
        THEN [response |-> <<remote.val>>,
              history |-> send_message(chat, text, remote.val),
              seeded |-> seeded]
        ELSE [response |-> <<"I apologize, but I encountered an error. Please try again.">>,
              history |-> chat \o << Content("user", text) >>,
              seeded |-> seeded]

\* remote is what the remote call does: a reply, or the error it raises.
\* seeded records whether this call classified the topic and built the seed.
gemini_api_query(text, history, remote) ==
    LET seeded == ~truthy(history)
        chat == IF seeded
                THEN start_chat(seed_history(classify_topic(text)))
                ELSE start_chat(history)
    IN  IF remote.kind = "ok"
        THEN [response |-> <<remote.val>>,
              history |-> send_message(chat, text, remote.val),
              seeded |-> seeded]
        ELSE [response |-> <<"I apologize, but I encountered an error: ",
                             remote.val, ". Please try again.">>,
              history |-> history,
              seeded |-> seeded]

(***************************************************************************)
(* Transcript store.  The file conversation_history.json is missing, holds *)
(* text that is no JSON, holds a JSON value that is no object (an array),  *)
(* or holds a JSON object.  An object is a total function over SessionIds  *)
(* whose absent keys are marked: a key occurs at most once in it.          *)
(***************************************************************************)
SessionIds == {"20261101_090000", "20261102_101500"}

Absent == [present |-> FALSE, timestamp |-> 0, history |-> <<>>]

OldEntry ==
    [present |-> TRUE, timestamp |-> 0,
     history |-> << [role |-> "user", parts |-> <<"o","l","d">>] >>]

EmptyMapping == [k \in SessionIds |-> Absent]

FileStates ==
    [kind : {"missing", "invalid", "array"}, doc : {EmptyMapping}]
        \cup [kind : {"object"}, doc : [SessionIds -> {Absent, OldEntry}]]

\* what json.load returns, or {} for a missing or undecodable file
load_conversation_history(f) ==
    CASE f.kind = "object" -> [type |-> "dict", items |-> f.doc]
      [] f.kind = "array"  -> [type |-> "list", items |-> EmptyMapping]
      [] OTHER             -> [type |-> "dict", items |-> EmptyMapping]

\* str(message) of a Content object: its printed fields, not its text alone
str(message) ==
    <<"parts { text: ">> \o message.parts \o <<" } role: ", message.role>>

\* one turn of the loop that builds serializable_history
serializable_message(message) ==
    IF message.shape = "dict"
    THEN [role |-> message.role, parts |-> message.parts]
    ELSE [role |-> IF "role" \in DOMAIN message THEN "model" ELSE "user",
          parts |-> str(message)]

\* a save that starts from an empty mapping instead of the stored one
save_conversation_fresh(sid, history, f, now) ==
    [raised |-> FALSE,
     file |-> [kind |-> "object",
               doc |-> [EmptyMapping EXCEPT ![sid] =
                           [present |-> TRUE, timestamp |-> now,
                            history |-> [i \in 1..Len(history) |->
                                            serializable_message(history[i])]]]]]

\* raised: the item assignment fails on a value that is no dict, before
\* the file is opened for writing
save_conversation(sid, history, f, now) ==
    LET conversations == load_conversation_history(f)
        serializable_history ==
            [i \in 1..Len(history) |-> serializable_message(history[i])]
    IN  IF conversations.type # "dict"
        THEN [raised |-> TRUE, file |-> f]
        ELSE [raised |-> FALSE,
              file |-> [kind |-> "object",
                        doc |-> [conversations.items EXCEPT ![sid] =
                                    [present |-> TRUE, timestamp |-> now,
                                     history |-> serializable_history]]]]

RECURSIVE user_parts(_)
\* [msg['parts'] for msg in history if msg['role'] == 'user']
user_parts(history) ==
    IF history = <<>> THEN <<>>
    ELSE (IF Head(history).role = "user" THEN <<Head(history).parts>> ELSE <<>>)
             \o user_parts(Tail(history))

\* raised: msg['role'] on a message that is no dict
summarize_conversation(history) ==
    IF \E i \in 1..Len(history) : history[i].shape # "dict"
    THEN [raised |-> TRUE, text |-> <<"TypeError: object is not subscriptable">>]
    ELSE LET all == user_parts(history)
             questions == SubSeq(all, 2, Len(all))
             shown == SubSeq(questions, 1, IF Len(questions) < 3 THEN Len(questions) ELSE 3)
         IN  [raised |-> FALSE,
              text |-> <<"Discussion covered: ">> \o join(<<", ">>, shown) \o <<"...">>]

(***************************************************************************)
(* Session driver: main().  pc is "awaiting" at the input prompt,          *)
(* "stopped" after the break, "crashed" when an exception left main().     *)
(* out is what the last turn of the loop printed; outcome is what the      *)
(* remote call of the last turn did; asked counts the questions;           *)
(* classified lists the questions whose topic was classified.  clock is    *)
(* the reading of datetime.now(); loaded is what the last call of            *)
(* load_conversation_history returned.                                     *)
(***************************************************************************)
EXIT == <<"e","x","i","t">>
HISTORY == <<"h","i","s","t","o","r","y">>
SAVE == <<"s","a","v","e">>

Lines ==
    { <<" ","E","x","i","T"," ">>,
      <<"H","i","s","t","o","r","y"," ">>,
      <<"TAB","S","A","V","E">>,
      <<>>, <<" "," ">>,
      <<" ","S","u","g","g","e","s","t","?">>, <<"h","i">> }

NotLoaded == [type |-> "none", items |-> EmptyMapping]

Printed(kind, text) == [kind |-> kind, text |-> text]

Farewell == Printed("farewell", <<"Thank you for chatting with BookGuide! Happy reading!">>)
Nothing == Printed("nothing", <<>>)
Traceback(text) == Printed("traceback", text)

\* datetime.now().strftime("%Y%m%d_%H%M%S") at the start of main()
StartedAt == "20261102_101500"

Init ==
    /\ pc = "awaiting"
    /\ session_id = StartedAt
    /\ chat_history = <<>>
    /\ file \in FileStates
    /\ clock = 1
    /\ user_input = <<>>
    /\ out = Nothing
    /\ outcome = NoOutcome
    /\ asked = 0
    /\ classified = <<>>
    /\ loaded = NotLoaded

\* `exit`: save a non-empty session, say goodbye, break
Exit ==
    \E line \in Lines :
        /\ pc = "awaiting"
        /\ lower(strip(line)) = EXIT
        /\ user_input' = strip(line)
        /\ outcome' = NoOutcome
        /\ IF truthy(chat_history)
           THEN LET saved == save_conversation(session_id, chat_history, file, clock)
                IN  /\ clock' = clock + 1
                    /\ file' = saved.file
                    /\ IF saved.raised
                       THEN /\ pc' = "crashed"
                            /\ out' = Traceback(<<"TypeError: list indices must be integers">>)
                       ELSE /\ pc' = "stopped"
                            /\ out' = Farewell
           ELSE /\ pc' = "stopped"
                /\ out' = Farewell
                /\ UNCHANGED <<file, clock>>
        /\ UNCHANGED <<session_id, chat_history, asked, classified, loaded>>

\* `history`: print the summary of a non-empty session
History ==
    \E line \in Lines :
        /\ pc = "awaiting"
        /\ lower(strip(line)) # EXIT
        /\ lower(strip(line)) = HISTORY
        /\ user_input' = strip(line)
        /\ outcome' = NoOutcome
        /\ IF truthy(chat_history)
           THEN LET summary == summarize_conversation(chat_history)
                IN  IF summary.raised
                    THEN /\ pc' = "crashed"
                         /\ out' = Traceback(summary.text)
                    ELSE /\ pc' = "awaiting"
                         /\ out' = Printed("summary", <<"Conversation Summary:">> \o summary.text)
           ELSE /\ pc' = "awaiting"
                /\ out' = Nothing
        /\ UNCHANGED <<session_id, chat_history, file, clock, asked, classified, loaded>>

\* `save`: store a non-empty session
Save ==
    \E line \in Lines :
        /\ pc = "awaiting"
        /\ lower(strip(line)) \notin {EXIT, HISTORY}
        /\ lower(strip(line)) = SAVE
        /\ clock <= MaxSaves
        /\ user_input' = strip(line)
        /\ outcome' = NoOutcome
        /\ IF truthy(chat_history)
           THEN LET saved == save_conversation(session_id, chat_history, file, clock)
                IN  /\ clock' = clock + 1
                    /\ file' = saved.file
                    /\ IF saved.raised
                       THEN /\ pc' = "crashed"
                            /\ out' = Traceback(<<"TypeError: list indices must be integers">>)
                       ELSE /\ pc' = "awaiting"
                            /\ out' = Printed("saved", <<"Conversation saved!">>)
           ELSE /\ pc' = "awaiting"
                /\ out' = Nothing
                /\ UNCHANGED <<file, clock>>
        /\ UNCHANGED <<session_id, chat_history, asked, classified, loaded>>

\* an empty line
Blank ==
    \E line \in Lines :
        /\ pc = "awaiting"
        /\ lower(strip(line)) \notin {EXIT, HISTORY, SAVE}
        /\ strip(line) = <<>>
        /\ user_input' = strip(line)
        /\ outcome' = NoOutcome
        /\ pc' = "awaiting"
        /\ out' = Printed("prompt", <<"Please ask a book-related question!: ">>)
        /\ UNCHANGED <<session_id, chat_history, file, clock, asked, classified, loaded>>

\* anything else is a question
Question ==
    \E line \in Lines, remote \in RemoteOutcomes :
        /\ pc = "awaiting"
        /\ lower(strip(line)) \notin {EXIT, HISTORY, SAVE}
        /\ strip(line) # <<>>
        /\ asked < MaxQuestions
        /\ user_input' = strip(line)
        /\ LET answer == gemini_api_query(strip(line), chat_history, remote)
           IN  /\ chat_history' = answer.history
               /\ out' = Printed("reply", <<"BookGuide:">> \o answer.response)
               /\ classified' = IF answer.seeded
                                THEN Append(classified, strip(line))
                                ELSE classified
        /\ outcome' = remote
        /\ asked' = asked + 1
        /\ pc' = "awaiting"
        /\ UNCHANGED <<session_id, file, clock, loaded>>

Next == Exit \/ History \/ Save \/ Blank \/ Question

Spec == Init /\ [][Next]_vars

(***************************************************************************)
(* The transcript store on its own: load_conversation_history and          *)
(* save_conversation applied to every file state and to exchange logs of   *)
(* both shapes.  session_id and chat_history hold the arguments of the     *)
(* last save.                                                              *)
(***************************************************************************)
Hi == <<"h","i">>
Ok == <<"o","k">>

StoreLogs ==
    { <<>>,
      << Dict("user", Hi) >>,
      << Dict("user", Hi), Dict("model", Ok) >>,
      << Dict("model", Ok), Dict("user", Hi), Dict("user", Ok) >>,
      << Content("user", Hi) >>,
      << Content("user", Hi), Content("model", Ok) >>,
      << Dict("user", Hi), Content("model", Ok) >>,
      send_message(start_chat(seed_history("general")), Hi, "Ask a librarian.") }

InitStore ==
    /\ pc = "store"
    /\ session_id \in SessionIds
    /\ chat_history = <<>>
    /\ file \in FileStates
    /\ clock = 1
    /\ user_input = <<>>
    /\ out = Nothing
    /\ outcome = NoOutcome
    /\ asked = 0
    /\ classified = <<>>
    /\ loaded = NotLoaded

StoreLoad ==
    /\ pc = "store"
    /\ loaded' = load_conversation_history(file)
    /\ out' = Printed("loaded", <<>>)
    /\ UNCHANGED <<pc, session_id, chat_history, file, clock, user_input,
                   outcome, asked, classified>>

StoreSave ==
    \E sid \in SessionIds, history \in StoreLogs :
        /\ pc = "store"
        /\ clock <= MaxSaves
        /\ LET saved == save_conversation(sid, history, file, clock)
           IN  /\ file' = saved.file
               /\ out' = IF saved.raised
                         THEN Traceback(<<"TypeError: list indices must be integers">>)
                         ELSE Printed("stored", <<>>)
        /\ session_id' = sid
        /\ chat_history' = history
        /\ clock' = clock + 1
        /\ UNCHANGED <<pc, user_input, outcome, asked, classified, loaded>>

NextStore == StoreLoad \/ StoreSave

SpecStore == InitStore /\ [][NextStore]_vars

(***************************************************************************)
(* The classifier on its own, applied to texts put together from pieces    *)
(* of keywords in either case.                                             *)
(***************************************************************************)
Fragments ==
    { <<"R","e","c","o","m","m","e","n","d">>, <<"s","u","g","g","e","s","t">>,
      <<"A","U","T","H","O","R">>, <<"w","r","i","t","e">>,
      <<"g","e","n","r","e">>, <<"t","y","p","e">>,
      <<"u","n","d","e","r","s","t","a","n","d">>,
      <<"M","e","a","n","i","n","g">>, <<"l","i","b","r","a","r","y">>,
      <<"f","i","n","d">>, <<"f","i","n">>, <<"d">>, <<" ">>,
      <<"a"," ","b","o","o","k">> }

RECURSIVE Concats(_)
Concats(n) ==
    IF n = 0 THEN { <<>> }
    ELSE Concats(n - 1) \cup { f \o t : f \in Fragments, t \in Concats(n - 1) }

InitClassify ==
    /\ pc = "classify"
    /\ user_input \in Concats(MaxFrags)
    /\ session_id \in SessionIds
    /\ chat_history = <<>>
    /\ file = [kind |-> "missing", doc |-> EmptyMapping]
    /\ clock = 1
    /\ out = Nothing
    /\ outcome = NoOutcome
    /\ asked = 0
    /\ classified = <<>>
    /\ loaded = NotLoaded

Classify ==
    /\ pc = "classify"
    /\ out' = Printed("topic", <<classify_topic(user_input)>>)
    /\ pc' = "classified"
    /\ UNCHANGED <<session_id, chat_history, file, clock, user_input,
                   outcome, asked, classified, loaded>>

NextClassify == Classify

SpecClassify == InitClassify /\ [][NextClassify]_vars

(***************************************************************************)
(* Properties                                                              *)
(***************************************************************************)

\* C1: a question whose remote call raises leaves the session log exactly
\* as it was before the question, and the reply that is printed contains
\* the description of the error.
FailedCallKeepsSession ==
    [][ (asked' # asked /\ outcome'.kind = "error")
            => /\ chat_history' = chat_history
               /\ out'.kind = "reply"
               /\ Contains(<<outcome'.val>>, out'.text) ]_vars

\* a question failed after an earlier one had succeeded
FailedCallWitness ==
    /\ outcome.kind = "error"
    /\ out.kind = "reply"
    /\ truthy(chat_history)

\* C2: a save over a file that holds a mapping (or none) leaves the record
\* of every other session identifier as it was, and the mapping read back
\* has the entry of the saved session, stamped with the time of this save,
\* which is later than the stamp of the entry it replaces.
SaveTouchesOnlyItsSession ==
    [][ (clock' # clock /\ file.kind # "array")
            => LET before == file.doc
                   after == load_conversation_history(file')
               IN  /\ after.type = "dict"
                   /\ \A k \in SessionIds \ {session_id'} :
                          after.items[k] = before[k]
                   /\ after.items[session_id'].present
                   /\ after.items[session_id'].timestamp = clock
                   /\ before[session_id'].present
                          => before[session_id'].timestamp < clock ]_vars

\* the same session was saved twice in a row next to another session's record
SaveTwiceWitness ==
    /\ pc = "store"
    /\ out.kind = "stored"
    /\ clock = 3
    /\ file.doc[session_id].timestamp = 2
    /\ \E k \in SessionIds \ {session_id} : file.doc[k] = OldEntry

\* C3: load_conversation_history returns a mapping for every state of the
\* file, the empty one when the file is missing or is no JSON, and the save
\* that follows can store its entry into it.
LoadYieldsMapping ==
    /\ loaded.type \in {"none", "dict"}
    /\ (out.kind = "loaded" /\ file.kind \in {"missing", "invalid"})
           => loaded.items = EmptyMapping
    /\ out.kind # "traceback"

\* C4: the history stored by a save and read back has the length of the
\* saved log and, at every position, the role and the text of the exchange
\* at that position, for plain records and for Content objects.
SaveLoadRoundTrip ==
    out.kind = "stored"
        => LET back == load_conversation_history(file).items[session_id].history
           IN  /\ Len(back) = Len(chat_history)
               /\ \A i \in 1..Len(back) :
                      /\ back[i].role = chat_history[i].role
                      /\ back[i].parts = chat_history[i].parts

\* C5: the topic is that of the first keyword, in declaration order, that
\* occurs in the lower-cased text, "general" when none occurs, and always
\* one of the six labels.
ClassifyIsFirstMatch ==
    pc = "classified"
        => LET text == lower(user_input)
               occurs(i) == Contains(keywords[i].key, text)
               topic == out.text[1]
           IN  /\ topic \in Topics
               /\ IF \E i \in 1..Len(keywords) : occurs(i)
                  THEN \E i \in 1..Len(keywords) :
                           /\ occurs(i)
                           /\ \A j \in 1..(i - 1) : ~occurs(j)
                           /\ topic = keywords[i].topic
                  ELSE topic = "general"

\* a text in mixed case holds a later keyword and an earlier one, and got
\* the earlier one's topic
ClassifyWitness ==
    /\ pc = "classified"
    /\ user_input # lower(user_input)
    /\ Contains(keywords[3].key, lower(user_input))
    /\ Contains(keywords[1].key, lower(user_input))
    /\ out.text = <<"recommendations">>

\* C6: the loop is at its prompt after every command but `exit`, and
\* nothing but `exit` ends the process.
DriverStopsOnlyOnExit ==
    \/ pc = "awaiting"
    \/ pc = "stopped" /\ lower(user_input) = EXIT

\* role and text of two logs agree position by position
SameTurns(a, b) ==
    /\ Len(a) = Len(b)
    /\ \A i \in 1..Len(a) : a[i].role = b[i].role /\ a[i].parts = b[i].parts

\* C7: the file is written exactly on `save` and `exit` with a non-empty
\* session; after `exit` with a non-empty session the loop has stopped and
\* the file holds the session's log under session_id; with an empty session
\* `exit`, `save` and `history` change neither the file nor the session.
WritesExactlyOnSaveOrExit ==
    [][ LET cmd == lower(user_input')
        IN  /\ (file' # file) <=> (cmd \in {SAVE, EXIT} /\ truthy(chat_history))
            /\ (cmd = EXIT /\ truthy(chat_history))
                   => /\ pc' = "stopped"
                      /\ file'.kind = "object"
                      /\ file'.doc[session_id].present
                      /\ SameTurns(file'.doc[session_id].history, chat_history)
            /\ (cmd \in {EXIT, SAVE, HISTORY} /\ ~truthy(chat_history))
                   => file' = file /\ chat_history' = chat_history ]_vars

DirectiveOf(history, topic) ==
    history[1].parts = system_prompt(topic)

\* C9 as stated: at most one question of a run is classified, and the
\* directive of the seed is the topic of the session's first question.
SeedOncePerSession ==
    /\ Len(classified) <= 1
    /\ truthy(chat_history) => DirectiveOf(chat_history, classify_topic(classified[1]))

\* C9 amended: a question is classified exactly when the session log is
\* empty as it is asked; a non-empty log is only ever extended; and the
\* directive of the seed is the topic of the first question that succeeded.
SeedWhileLogEmpty ==
    [][ /\ (classified' # classified) <=> (asked' # asked /\ ~truthy(chat_history))
        /\ truthy(chat_history)
               => SubSeq(chat_history', 1, Len(chat_history)) = chat_history
        /\ truthy(chat_history')
               => DirectiveOf(chat_history', classify_topic(chat_history'[5].parts)) ]_vars

\* a question failed, the next succeeded and was classified, a third
\* succeeded and was not
SeedWitness ==
    /\ asked = 3
    /\ Len(classified) = 2
    /\ Len(chat_history) = 8

\* the contents of at most three user-role exchanges after the first one
ListedQuestions(history) ==
    LET users == SelectSeq(history, LAMBDA m : m.role = "user")
        rest == Tail(users)
    IN  [i \in 1..(IF Len(rest) < 3 THEN Len(rest) ELSE 3) |-> rest[i].parts]

\* C10: `history` on a non-empty session prints "Discussion covered: " and
\* the listed questions, joined by commas, and the loop goes on.
HistoryListsQuestions ==
    (lower(user_input) = HISTORY /\ truthy(chat_history))
        => /\ pc = "awaiting"
           /\ out.kind = "summary"
           /\ Contains(<<"Discussion covered: ">>
                           \o join(<<", ">>, ListedQuestions(chat_history)),
                       out.text)

====
